---------------------------- MODULE Spec2Model ----------------------------
(***************************************************************************)
(* Rule 727 (src/app/app.py): a SELECT that fills an internal table        *)
(* without DISTINCT, followed by DELETE ADJACENT DUPLICATES on the same    *)
(* table.                                                                  *)
(*                                                                         *)
(* Source text is a sequence of lexemes.  A lexeme is the unit the regular *)
(* expressions of app.py cannot split: a keyword, an identifier, one of    *)
(* the bracketed target shapes, "@", ".", a blank, a newline or any other  *)
(* symbol.  Offsets (match.start(), match.end(), rfind, find, slices) are  *)
(* 0-based positions in that sequence, as Python's are in the string.      *)
(* The phrases DELETE ADJACENT DUPLICATES FROM and CORRESPONDING FIELDS OF *)
(* are one lexeme each, and the bracketed shapes carry no inner blanks.    *)
(* Keyword lexemes stand for the keyword in any letter case ((?i) flag).   *)
(*                                                                         *)
(* Optional values (Python None) are sequences of length at most one.      *)
(***************************************************************************)
EXTENDS Integers, Sequences, FiniteSets, TLC

\* ------------------------------------------------------------------------
\* Bounds of the model
\* ------------------------------------------------------------------------
MaxStmts == 3

MaxUnits == 3

MaxRounds == 1

\* ------------------------------------------------------------------------
\* Optional values and Python sequence helpers
\* ------------------------------------------------------------------------
None == << >>

Some(x) == << x >>

\* text[i] with Python's 0-based index
At(s, i) == s[i + 1]

\* text[a:b]
Slice(s, a, b) == SubSeq(s, a + 1, b)

Min(S) == CHOOSE x \in S : \A y \in S : x <= y

\* the element of a one-element set; The({e(x) : x \in {v}}) is e with x bound
\* to the value of v, computed once
The(S) == CHOOSE x \in S : TRUE

\* ------------------------------------------------------------------------
\* Lexemes
\* ------------------------------------------------------------------------
Kw(k) == [kind |-> k, name |-> << k >>]

SP == [kind |-> "SP", name |-> << >>]

NL == [kind |-> "NL", name |-> << >>]

DOT == [kind |-> "DOT", name |-> << >>]

SYM == [kind |-> "SYM", name |-> << >>]

AT == [kind |-> "AT", name |-> << >>]

\* the two characters backslash, n written by snippet escaping
ESC_NL == [kind |-> "ESC_NL", name |-> << >>]

\* lt_tab
Word(n) == [kind |-> "WORD", name |-> n]

\* DATA(lt_tab)
Data(n) == [kind |-> "DATA", name |-> n]

\* <lt_tab>
Fs(n) == [kind |-> "FS", name |-> n]

\* (lt_tab)
Dyn(n) == [kind |-> "DYN", name |-> n]

\* lexemes made of \w characters only
WordKinds == {"WORD", "SELECT", "DISTINCT", "INTO", "TABLE", "APPENDING",
              "CORR", "DELDUP"}

\* first character is a \w character
WordStart(x) == x.kind \in WordKinds \cup {"DATA"}

\* last character is a \w character
WordEnd(x) == x.kind \in WordKinds

IsSpace(x) == x.kind \in {"SP", "NL"}

\* \b in front of the word lexeme at offset i
BoundaryBefore(s, i) == i = 0 \/ ~WordEnd(At(s, i - 1))

\* \b behind the word lexeme at offset i
BoundaryAfter(s, i) == i + 1 = Len(s) \/ ~WordStart(At(s, i + 1))

\* \s* from offset p: the offset of the first lexeme that is no blank
RECURSIVE SkipSpace(_, _)
SkipSpace(s, p) ==
    IF p < Len(s) /\ IsSpace(At(s, p)) THEN SkipSpace(s, p + 1) ELSE p

\* str.find(".", from): -1 when absent
FindDot(s, from) ==
    LET hits == {i \in from .. Len(s) - 1 : At(s, i).kind = "DOT"}
    IN  IF hits = {} THEN -1 ELSE Min(hits)

\* ------------------------------------------------------------------------
\* Letter case
\* ------------------------------------------------------------------------
LowerChar(c) ==
    CASE c = "L" -> "l"
      [] c = "T" -> "t"
      [] c = "M" -> "m"
      [] c = "SELECT" -> "select"
      [] c = "DISTINCT" -> "distinct"
      [] c = "INTO" -> "into"
      [] c = "TABLE" -> "table"
      [] c = "APPENDING" -> "appending"
      [] c = "CORR" -> "corresponding"
      [] c = "DELDUP" -> "delete"
      [] OTHER -> c

\* str.lower()
Lower(s) == [i \in 1 .. Len(s) |-> LowerChar(s[i])]

\* canon_name without the case folding
canon_name_raw(raw) == IF raw # None THEN raw ELSE None

canon_name(raw) == IF raw # None THEN Lower(raw) ELSE None

\* ------------------------------------------------------------------------
\* TARGET_ITAB_TOKEN matched at offset p: @?\s*(DATA(..)|<..>|(..)|\w+)
\* ------------------------------------------------------------------------
NoGroups == [data |-> None, fs |-> None, dyn |-> None, plain |-> None]

TARGET_ITAB_TOKEN(s, p) ==
    LET p1 == IF p < Len(s) /\ At(s, p).kind = "AT" THEN p + 1 ELSE p
        p2 == SkipSpace(s, p1)
        x  == At(s, p2)
        fail == [ok |-> FALSE, groups |-> NoGroups, end |-> p]
    IN  IF p2 >= Len(s) THEN fail
        ELSE IF x.kind = "DATA"
             THEN [ok |-> TRUE, groups |-> [NoGroups EXCEPT !.data = x.name], end |-> p2 + 1]
        ELSE IF x.kind = "FS"
             THEN [ok |-> TRUE, groups |-> [NoGroups EXCEPT !.fs = x.name], end |-> p2 + 1]
        ELSE IF x.kind = "DYN"
             THEN [ok |-> TRUE, groups |-> [NoGroups EXCEPT !.dyn = x.name], end |-> p2 + 1]
        ELSE IF x.kind \in WordKinds
             THEN [ok |-> TRUE, groups |-> [NoGroups EXCEPT !.plain = x.name], end |-> p2 + 1]
        ELSE fail

\* the first non-empty named group, in the order of names
RECURSIVE coalesce_group(_, _)
coalesce_group(groups, names) ==
    IF names = << >> THEN None
    ELSE IF groups[Head(names)] # None THEN groups[Head(names)]
    ELSE coalesce_group(groups, Tail(names))

GroupNames == << "data", "fs", "dyn", "plain" >>

\* ------------------------------------------------------------------------
\* The compiled patterns.  A match is [found, start, end, groups].
\* ------------------------------------------------------------------------
NoMatch == [found |-> FALSE, start |-> -1, end |-> -1, groups |-> NoGroups]

\* \bSELECT\b[^.]*\. : the leftmost match starting at or after pos
STMT_SELECT_RE(src, pos) ==
    LET hits == {i \in pos .. Len(src) - 1 :
                    /\ At(src, i).kind = "SELECT"
                    /\ BoundaryBefore(src, i)
                    /\ BoundaryAfter(src, i)
                    /\ FindDot(src, i + 1) # -1}
    IN  IF hits = {} THEN NoMatch
        ELSE [found |-> TRUE, start |-> Min(hits),
              end |-> FindDot(src, Min(hits) + 1) + 1, groups |-> NoGroups]

\* \bSELECT\b\s+DISTINCT\b searched in stmt
SELECT_DISTINCT_RE(stmt) ==
    \E i \in 0 .. Len(stmt) - 1 :
        /\ At(stmt, i).kind = "SELECT"
        /\ BoundaryBefore(stmt, i)
        /\ LET q == SkipSpace(stmt, i + 1)
           IN  /\ q > i + 1
               /\ q < Len(stmt)
               /\ At(stmt, q).kind = "DISTINCT"
               /\ BoundaryAfter(stmt, q)

\* \bINTO\s+((CORRESPONDING FIELDS OF\s+)?TABLE|APPENDING\s+TABLE)\s+<target>
\* tried at offset k
IntoTableAt(s, k) ==
    LET p1 == SkipSpace(s, k + 1)
        x  == At(s, p1)
        q  == SkipSpace(s, p1 + 1)
        pTable == IF p1 = k + 1 \/ p1 >= Len(s) THEN -1
                  ELSE IF x.kind = "TABLE" THEN p1
                  ELSE IF x.kind \in {"CORR", "APPENDING"}
                          /\ q > p1 + 1 /\ q < Len(s) /\ At(s, q).kind = "TABLE"
                       THEN q
                  ELSE -1
        pT == SkipSpace(s, pTable + 1)
        t  == TARGET_ITAB_TOKEN(s, pT)
    IN  IF /\ At(s, k).kind = "INTO"
           /\ BoundaryBefore(s, k)
           /\ pTable # -1
           /\ pT > pTable + 1
           /\ t.ok
        THEN [found |-> TRUE, start |-> k, end |-> t.end, groups |-> t.groups]
        ELSE NoMatch

\* INTO_TABLE_ITAB_RE.search(stmt): the leftmost match
INTO_TABLE_ITAB_RE(stmt) ==
    LET hits == {k \in 0 .. Len(stmt) - 1 : IntoTableAt(stmt, k).found}
    IN  IF hits = {} THEN NoMatch ELSE IntoTableAt(stmt, Min(hits))

\* \bDELETE ADJACENT DUPLICATES FROM\s+<target>[^.]*\. tried at offset i
DeleteDupAt(s, i) ==
    LET q == SkipSpace(s, i + 1)
        t == TARGET_ITAB_TOKEN(s, q)
    IN  IF /\ At(s, i).kind = "DELDUP"
           /\ BoundaryBefore(s, i)
           /\ q > i + 1
           /\ t.ok
           /\ FindDot(s, t.end) # -1
        THEN [found |-> TRUE, start |-> i, end |-> FindDot(s, t.end) + 1,
              groups |-> t.groups]
        ELSE NoMatch

\* STMT_DELETE_DUP_RE: the leftmost match starting at or after pos
STMT_DELETE_DUP_RE(src, pos) ==
    LET hits == {i \in pos .. Len(src) - 1 : DeleteDupAt(src, i).found}
    IN  IF hits = {} THEN NoMatch ELSE DeleteDupAt(src, Min(hits))

\* ------------------------------------------------------------------------
\* get_line_snippet and str.count
\* ------------------------------------------------------------------------
Max(S) == CHOOSE x \in S : \A y \in S : x >= y

NewlinesAt(text, a, b) == {i \in a .. b - 1 : At(text, i).kind = "NL"}

\* text.count("\n")
CountNewlines(text) == Cardinality(NewlinesAt(text, 0, Len(text)))

get_line_snippet(text, start, end) ==
    LET before == NewlinesAt(text, 0, start)
        after  == NewlinesAt(text, end, Len(text))
        line_start == IF before = {} THEN 0 ELSE Max(before) + 1
        line_end   == IF after = {} THEN Len(text) ELSE Min(after)
    IN  Slice(text, line_start, line_end)

\* snippet_line.replace("\n", "\\n")
EscapeNewlines(s) ==
    [i \in 1 .. Len(s) |-> IF s[i].kind = "NL" THEN ESC_NL ELSE s[i]]

\* ------------------------------------------------------------------------
\* scan_unit
\* ------------------------------------------------------------------------
\* unit.code or ""
CodeOf(unit) == IF unit.code = None THEN << >> ELSE unit.code[1]

\* unit.start_line or 0
BaseStart(unit) == IF unit.start_line = None THEN 0 ELSE unit.start_line[1]

\* step 1: the loop over STMT_SELECT_RE.finditer(src), from offset pos on
RECURSIVE CollectSelects(_, _, _)
CollectSelects(src, pos, selects) ==
    The({ LET sel_stmt == Slice(src, m.start, m.end)
              itab_match == INTO_TABLE_ITAB_RE(sel_stmt)
              target_name == canon_name(coalesce_group(itab_match.groups, GroupNames))
              has_distinct == SELECT_DISTINCT_RE(sel_stmt)
          IN  IF ~m.found THEN selects
              ELSE IF ~itab_match.found THEN CollectSelects(src, m.end, selects)
              ELSE IF target_name = None THEN CollectSelects(src, m.end, selects)
              ELSE CollectSelects(src, m.end,
                      Append(selects, [itab |-> target_name,
                                       start |-> m.start,
                                       end |-> m.end,
                                       has_distinct |-> has_distinct,
                                       stmt |-> sel_stmt]))
          : m \in {STMT_SELECT_RE(src, pos)} })

\* build_finding_for_pair anchored to the deduplication statement
build_finding_for_pair_at_delete(unit, itab_name, select_start, select_end, delete_start, delete_end) ==
    LET src == CodeOf(unit)
        line_in_block == CountNewlines(Slice(src, 0, delete_start)) + 1
        snippet_line == get_line_snippet(src, delete_start, delete_end)
        snippet_line_count == CountNewlines(snippet_line) + 1
    IN  [prog_name |-> unit.pgm_name,
         incl_name |-> unit.inc_name,
         types |-> unit.type,
         blockname |-> unit.name,
         starting_line |-> BaseStart(unit) + line_in_block,
         ending_line |-> BaseStart(unit) + line_in_block + snippet_line_count,
         issues_type |-> "UseSelectDistinct",
         severity |-> "error",
         message |-> [text |-> "SELECT fills followed by DELETE ADJACENT DUPLICATES",
                      itab |-> itab_name],
         suggestion |-> [text |-> "Replace the SELECT with DISTINCT and remove the DELETE step",
                         itab |-> itab_name],
         snippet |-> EscapeNewlines(snippet_line)]

build_finding_for_pair(unit, itab_name, select_start, select_end, delete_start, delete_end) ==
    LET src == CodeOf(unit)
        stmt_start == select_start
        stmt_end == select_end
        line_in_block == CountNewlines(Slice(src, 0, stmt_start)) + 1
        snippet_line == get_line_snippet(src, stmt_start, stmt_end)
        snippet_line_count == CountNewlines(snippet_line) + 1
        starting_line_abs == BaseStart(unit) + line_in_block
        ending_line_abs == BaseStart(unit) + line_in_block + snippet_line_count
    IN  [prog_name |-> unit.pgm_name,
         incl_name |-> unit.inc_name,
         types |-> unit.type,
         blockname |-> unit.name,
         starting_line |-> starting_line_abs,
         ending_line |-> ending_line_abs,
         issues_type |-> "UseSelectDistinct",
         severity |-> "error",
         message |-> [text |-> "SELECT fills followed by DELETE ADJACENT DUPLICATES",
                      itab |-> itab_name],
         suggestion |-> [text |-> "Replace the SELECT with DISTINCT and remove the DELETE step",
                         itab |-> itab_name],
         snippet |-> EscapeNewlines(snippet_line)]

\* FindPrior with "s.end <= d_start"
RECURSIVE FindPrior_le(_, _, _, _, _)
FindPrior_le(selects, k, d_itab, d_start, prior) ==
    IF k > Len(selects) THEN prior
    ELSE LET s == selects[k]
         IN  IF /\ s.itab = d_itab
                /\ s.end <= d_start
                /\ (prior = None \/ s.end > prior[1].end)
             THEN FindPrior_le(selects, k + 1, d_itab, d_start, Some(s))
             ELSE FindPrior_le(selects, k + 1, d_itab, d_start, prior)

\* FindPrior that keeps the first candidate it meets
RECURSIVE FindPrior_first(_, _, _, _, _)
FindPrior_first(selects, k, d_itab, d_start, prior) ==
    IF k > Len(selects) THEN prior
    ELSE LET s == selects[k]
         IN  IF /\ s.itab = d_itab
                /\ s.end < d_start
                /\ prior = None
             THEN FindPrior_first(selects, k + 1, d_itab, d_start, Some(s))
             ELSE FindPrior_first(selects, k + 1, d_itab, d_start, prior)

\* the inner loop "for s in selects", from index k on; prior is an optional
RECURSIVE FindPrior(_, _, _, _, _)
FindPrior(selects, k, d_itab, d_start, prior) ==
    IF k > Len(selects) THEN prior
    ELSE LET s == selects[k]
         IN  IF /\ s.itab = d_itab
                /\ s.end < d_start
                /\ (prior = None \/ s.end > prior[1].end)
             THEN FindPrior(selects, k + 1, d_itab, d_start, Some(s))
             ELSE FindPrior(selects, k + 1, d_itab, d_start, prior)

\* PairDeletes that flags whenever prior exists
RECURSIVE PairDeletes_nodistinct(_, _, _, _)
PairDeletes_nodistinct(unit, selects, pos, findings) ==
    The({ LET d_itab == canon_name(coalesce_group(d.groups, GroupNames))
          IN  IF ~d.found THEN findings
              ELSE IF d_itab = None THEN PairDeletes_nodistinct(unit, selects, d.end, findings)
              ELSE The({ IF prior # None
                         THEN PairDeletes_nodistinct(unit, selects, d.end,
                                 Append(findings,
                                        build_finding_for_pair(unit, d_itab, prior[1].start,
                                                               prior[1].end, d.start, d.end)))
                         ELSE PairDeletes_nodistinct(unit, selects, d.end, findings)
                         : prior \in {FindPrior(selects, 1, d_itab, d.start, None)} })
          : d \in {STMT_DELETE_DUP_RE(CodeOf(unit), pos)} })

\* selects without the candidate s
WithoutSelect(selects, s) == SelectSeq(selects, LAMBDA x : x.start # s.start)

\* PairDeletes that marks a paired candidate as used
RECURSIVE PairDeletes_consume(_, _, _, _)
PairDeletes_consume(unit, selects, pos, findings) ==
    The({ LET d_itab == canon_name(coalesce_group(d.groups, GroupNames))
          IN  IF ~d.found THEN findings
              ELSE IF d_itab = None THEN PairDeletes_consume(unit, selects, d.end, findings)
              ELSE The({ IF prior # None /\ ~prior[1].has_distinct
                         THEN PairDeletes_consume(unit, WithoutSelect(selects, prior[1]), d.end,
                                 Append(findings,
                                        build_finding_for_pair(unit, d_itab, prior[1].start,
                                                               prior[1].end, d.start, d.end)))
                         ELSE PairDeletes_consume(unit, selects, d.end, findings)
                         : prior \in {FindPrior(selects, 1, d_itab, d.start, None)} })
          : d \in {STMT_DELETE_DUP_RE(CodeOf(unit), pos)} })

\* step 2: the loop over STMT_DELETE_DUP_RE.finditer(src), from offset pos on
RECURSIVE PairDeletes(_, _, _, _)
PairDeletes(unit, selects, pos, findings) ==
    The({ LET d_itab == canon_name(coalesce_group(d.groups, GroupNames))
          IN  IF ~d.found THEN findings
              ELSE IF d_itab = None THEN PairDeletes(unit, selects, d.end, findings)
              ELSE The({ IF prior # None /\ ~prior[1].has_distinct
                         THEN PairDeletes(unit, selects, d.end,
                                 Append(findings,
                                        build_finding_for_pair(unit, d_itab, prior[1].start,
                                                               prior[1].end, d.start, d.end)))
                         ELSE PairDeletes(unit, selects, d.end, findings)
                         : prior \in {FindPrior(selects, 1, d_itab, d.start, None)} })
          : d \in {STMT_DELETE_DUP_RE(CodeOf(unit), pos)} })

\* scan_unit that returns no list when nothing was found
scan_unit_nonefindings(unit) ==
    The({ [arg |-> unit,
           ret |-> [unit EXCEPT !.findings = IF findings = << >> THEN None ELSE Some(findings)]]
          : findings \in {The({ PairDeletes(unit, selects, 0, << >>)
                                : selects \in {CollectSelects(CodeOf(unit), 0, << >>)} })} })

\* scan_unit that appends to the findings the unit came with
scan_unit_accumulate(unit) ==
    The({ [arg |-> unit, ret |-> [unit EXCEPT !.findings = Some(findings)]]
          : findings \in {The({ PairDeletes(unit, selects, 0,
                                    IF unit.findings = None THEN << >> ELSE unit.findings[1])
                                : selects \in {CollectSelects(CodeOf(unit), 0, << >>)} })} })

\* The call scan_unit(unit): arg is the caller's object after the call, ret
\* the returned object.  out_unit is a fresh object built from the dump of
\* unit; findings starts empty and is assigned to out_unit only.
scan_unit(unit) ==
    The({ LET out_unit == unit
          IN  [arg |-> unit, ret |-> [out_unit EXCEPT !.findings = Some(findings)]]
          : findings \in {The({ PairDeletes(unit, selects, 0, << >>)
                                : selects \in {CollectSelects(CodeOf(unit), 0, << >>)} })} })

\* "if res.findings is not None:"
HasFindings_notnone(u) == u.findings # None

\* "if res.findings:" of scan_rule_array
HasFindings(u) == u.findings # None /\ u.findings[1] # << >>

\* ------------------------------------------------------------------------
\* Request bodies
\* ------------------------------------------------------------------------
lt == << "l", "t" >>

LT == << "L", "T" >>

mm == << "m" >>

\* SELECT INTO TABLE @lt.<newline>
SelA == << Kw("SELECT"), SP, Kw("INTO"), SP, Kw("TABLE"), SP, AT, Word(lt), DOT, NL >>

\* SELECT *<newline> INTO TABLE LT.<newline>
SelAml == << Kw("SELECT"), SP, SYM, NL, SP, Kw("INTO"), SP, Kw("TABLE"), SP,
             Word(LT), DOT, NL >>

\* SELECT DISTINCT INTO CORRESPONDING FIELDS OF TABLE DATA(lt).<newline>
SelAd == << Kw("SELECT"), SP, Kw("DISTINCT"), SP, Kw("INTO"), SP, Kw("CORR"), SP,
            Kw("TABLE"), SP, Data(lt), DOT, NL >>

\* SELECT INTO TABLE <lt>.   (the next statement follows on the same line)
SelAadj == << Kw("SELECT"), SP, Kw("INTO"), SP, Kw("TABLE"), SP, Fs(lt), DOT >>

\* SELECT INTO APPENDING TABLE (m).<newline>
SelM == << Kw("SELECT"), SP, Kw("INTO"), SP, Kw("APPENDING"), SP, Kw("TABLE"), SP,
           Dyn(mm), DOT, NL >>

\* SELECT INTO lt.<newline>   (no fill clause)
SelScalar == << Kw("SELECT"), SP, Kw("INTO"), SP, Word(lt), DOT, NL >>

\* SELECT INTO TABLE lt<newline>   (no terminator)
SelOpen == << Kw("SELECT"), SP, Kw("INTO"), SP, Kw("TABLE"), SP, Word(lt), NL >>

\* DELETE ADJACENT DUPLICATES FROM lt *.<newline>
DelA == << Kw("DELDUP"), SP, Word(lt), SP, SYM, DOT, NL >>

\* DELETE ADJACENT DUPLICATES FROM @<LT>.
DelAadj == << Kw("DELDUP"), SP, AT, Fs(LT), DOT >>

\* DELETE ADJACENT DUPLICATES FROM (m).<newline>
DelM == << Kw("DELDUP"), SP, Dyn(mm), DOT, NL >>

Segments == {SelA, SelAml, SelAd, SelAadj, SelM, SelScalar, SelOpen,
             DelA, DelAadj, DelM, << NL >>}

\* the segments of f one after the other
RECURSIVE Flatten(_)
Flatten(f) == IF f = << >> THEN << >> ELSE Head(f) \o Flatten(Tail(f))

\* the texts made of at most n segments
Texts(n) == {Flatten(f) : f \in UNION {[1 .. k -> Segments] : k \in 0 .. n}}

\* a finding left on a unit by an earlier scan of other code
StaleFinding ==
    [prog_name |-> "ZPROG", incl_name |-> "ZINCL", types |-> "FORM",
     blockname |-> "main", starting_line |-> 7, ending_line |-> 8,
     issues_type |-> "UseSelectDistinct", severity |-> "error",
     message |-> [text |-> "SELECT fills followed by DELETE ADJACENT DUPLICATES",
                  itab |-> mm],
     suggestion |-> [text |-> "Replace the SELECT with DISTINCT and remove the DELETE step",
                     itab |-> mm],
     snippet |-> << Kw("SELECT"), DOT >>]

MkUnit(pgm, start, code, findings) ==
    [pgm_name |-> pgm, inc_name |-> "ZINCL", type |-> "FORM", name |-> "main",
     start_line |-> start, end_line |-> None, code |-> code, findings |-> findings]

StartLines == {None, Some(100)}

SingleUnits ==
    {MkUnit("ZPROG", s, c, f) :
        s \in StartLines,
        c \in {None} \cup {Some(t) : t \in Texts(MaxStmts)},
        f \in {None, Some(<< StaleFinding >>)}}

ArrayPool ==
    {MkUnit("ZA", Some(100), Some(SelA \o DelA), None),
     MkUnit("ZB", None, Some(DelA), None),
     MkUnit("ZC", Some(100), Some(SelAml \o DelA \o DelA), Some(<< StaleFinding >>)),
     MkUnit("ZD", None, None, None)}

\* the request bodies of at most n units
UnitLists(n) == UNION {[1 .. k -> ArrayPool] : k \in 0 .. n}

\* ------------------------------------------------------------------------
\* The service
\* ------------------------------------------------------------------------
VARIABLES endpoint, units, pc, idx, results, response, round, prev

vars == << endpoint, units, pc, idx, results, response, round, prev >>

Init ==
    /\ \/ endpoint = "remediate" /\ units \in {<< u >> : u \in SingleUnits}
       \/ endpoint = "remediate-array" /\ units \in UnitLists(MaxUnits)
    /\ pc = "recv"
    /\ idx = 1
    /\ results = << >>
    /\ response = << >>
    /\ round = 0
    /\ prev = << >>

\* POST /remediate
scan_rule_single ==
    /\ endpoint = "remediate"
    /\ pc = "recv"
    /\ \E r \in {scan_unit(units[1])} :
          /\ units' = << r.arg >>
          /\ response' = << r.ret >>
    /\ pc' = "done"
    /\ UNCHANGED << endpoint, idx, results, round, prev >>

\* POST /remediate-array: one turn of "for u in units"
scan_rule_array_iter ==
    /\ endpoint = "remediate-array"
    /\ pc = "recv"
    /\ idx <= Len(units)
    /\ \E r \in {scan_unit(units[idx])} :
          /\ units' = [units EXCEPT ![idx] = r.arg]
          /\ results' = IF HasFindings(r.ret) THEN Append(results, r.ret) ELSE results
    /\ idx' = idx + 1
    /\ UNCHANGED << endpoint, pc, response, round, prev >>

\* POST /remediate-array: "return results"
scan_rule_array_return ==
    /\ endpoint = "remediate-array"
    /\ pc = "recv"
    /\ idx > Len(units)
    /\ response' = results
    /\ pc' = "done"
    /\ UNCHANGED << endpoint, units, idx, results, round, prev >>

\* the client posts the unit it got back to /remediate again
Resubmit ==
    /\ endpoint = "remediate"
    /\ pc = "done"
    /\ round < MaxRounds
    /\ units' = response
    /\ prev' = response
    /\ response' = << >>
    /\ pc' = "recv"
    /\ round' = round + 1
    /\ UNCHANGED << endpoint, idx, results >>

Next ==
    \/ scan_rule_single
    \/ scan_rule_array_iter
    \/ scan_rule_array_return
    \/ Resubmit

Spec == Init /\ [][Next]_vars

\* ------------------------------------------------------------------------
\* What the properties speak about
\* ------------------------------------------------------------------------
\* a /remediate request has been answered
Done1 == endpoint = "remediate" /\ pc = "done"

TheSrc == CodeOf(units[1])

TheFindings == response[1].findings[1]

\* the deduplication statements with a resolved target, in source order
RECURSIVE CollectDeletes(_, _, _)
CollectDeletes(src, pos, deletes) ==
    The({ LET d_itab == canon_name(coalesce_group(d.groups, GroupNames))
          IN  IF ~d.found THEN deletes
              ELSE IF d_itab = None THEN CollectDeletes(src, d.end, deletes)
              ELSE CollectDeletes(src, d.end,
                      Append(deletes, [itab |-> d_itab, start |-> d.start, end |-> d.end]))
          : d \in {STMT_DELETE_DUP_RE(src, pos)} })

\* the answered unit as the scan saw it: its text, its start line, its query
\* candidates, its deduplication statements, and the findings returned
View ==
    [src |-> TheSrc,
     base |-> IF units[1].start_line = None THEN 0 ELSE units[1].start_line[1],
     cands |-> CollectSelects(TheSrc, 0, << >>),
     dels |-> CollectDeletes(TheSrc, 0, << >>),
     findings |-> TheFindings]

\* (a): the candidates on d's target that end strictly before d starts
Eligible(v, d) ==
    {k \in 1 .. Len(v.cands) : v.cands[k].itab = d.itab /\ v.cands[k].end < d.start}

\* the eligible candidate with the maximum end
Nearest(v, d) ==
    CHOOSE k \in Eligible(v, d) : \A j \in Eligible(v, d) : v.cands[j].end <= v.cands[k].end

\* (a) and (b)
Flagged(v, d) == Eligible(v, d) # {} /\ ~v.cands[Nearest(v, d)].has_distinct

\* the flagged deduplication statements, in source order
FlaggedDeletes(v) == SelectSeq(v.dels, LAMBDA d : Flagged(v, d))

\* number of newline lexemes strictly before offset off
NewlinesBefore(src, off) == Cardinality({i \in 1 .. off : src[i].kind = "NL"})

\* ------------------------------------------------------------------------
\* C1
\* ------------------------------------------------------------------------
\* C1: the findings of a unit are, in source order, one per deduplication
\* statement d for which (a) some candidate on d's canonical target ends
\* strictly before d starts and (b) the one of them with the maximum end is
\* not distinct; every other deduplication statement contributes none, so
\* the number of findings is the number of such statements.
C1_OneFindingPerFlaggedDelete ==
    Done1 =>
        \A v \in {View} : \A fl \in {FlaggedDeletes(v)} :
            /\ Len(v.findings) = Len(fl)
            /\ Len(v.findings) = Cardinality({i \in 1 .. Len(v.dels) : Flagged(v, v.dels[i])})
            /\ \A i \in 1 .. Len(fl) :
                  i <= Len(v.findings) => v.findings[i].message.itab = fl[i].itab

\* a flagged statement, a statement with no candidate before it, and a
\* statement that starts exactly where a candidate on its target ends
C1_Witness ==
    /\ Done1
    /\ \E v \in {View} :
          /\ Len(v.findings) >= 1
          /\ \E i \in 1 .. Len(v.dels) :
                /\ ~Flagged(v, v.dels[i])
                /\ \E k \in 1 .. Len(v.cands) :
                      /\ v.cands[k].itab = v.dels[i].itab
                      /\ v.cands[k].end = v.dels[i].start
                      /\ ~v.cands[k].has_distinct

\* ------------------------------------------------------------------------
\* C2
\* ------------------------------------------------------------------------
\* the location a finding anchored to candidate c carries
AnchorLine(v, c) == v.base + 1 + NewlinesBefore(v.src, c.start)

AnchorSnippet(v, c) == EscapeNewlines(get_line_snippet(v.src, c.start, c.end))

Reverse(s) == [i \in 1 .. Len(s) |-> s[Len(s) + 1 - i]]

\* C2: the finding of a deduplication statement carries the starting line
\* and the snippet of the candidate with the maximum end below the
\* statement's start, and the choice is the same when the candidates are
\* presented in the opposite order.
C2_NearestPrecedingPairing ==
    Done1 =>
        \A v \in {View} : \A fl \in {FlaggedDeletes(v)} :
            /\ Len(v.findings) = Len(fl)
            /\ \A i \in 1 .. Len(fl) :
                  \A c \in {v.cands[Nearest(v, fl[i])]} :
                      /\ i <= Len(v.findings)
                      /\ v.findings[i].starting_line = AnchorLine(v, c)
                      /\ v.findings[i].snippet = AnchorSnippet(v, c)
                      /\ FindPrior(v.cands, 1, fl[i].itab, fl[i].start, None) = Some(c)
                      /\ FindPrior(Reverse(v.cands), 1, fl[i].itab, fl[i].start, None) = Some(c)

\* two candidates on different lines end before a flagged statement
C2_Witness ==
    /\ Done1
    /\ \E v \in {View} : \E fl \in {FlaggedDeletes(v)} :
          \E i \in 1 .. Len(fl) :
              \E j, k \in Eligible(v, fl[i]) :
                  /\ k = Nearest(v, fl[i])
                  /\ j # k
                  /\ AnchorLine(v, v.cands[j]) # AnchorLine(v, v.cands[k])
                  /\ i <= Len(v.findings)
                  /\ v.findings[i].starting_line = AnchorLine(v, v.cands[k])

\* ------------------------------------------------------------------------
\* C3
\* ------------------------------------------------------------------------
\* the deduplication statements some candidate precedes
Preceded(v) == {i \in 1 .. Len(v.dels) : Eligible(v, v.dels[i]) # {}}

\* those of them whose nearest preceding candidate requests distinct rows
NearestIsDistinct(v) ==
    {i \in Preceded(v) : v.cands[Nearest(v, v.dels[i])].has_distinct}

\* C3: every finding carries the target, line and snippet of a candidate
\* that is not distinct; a deduplication statement whose nearest preceding
\* candidate is distinct contributes no finding, whatever precedes that
\* candidate; a target filled by distinct queries only has no finding.
C3_DistinctSuppresses ==
    Done1 =>
        \A v \in {View} :
            /\ \A i \in 1 .. Len(v.findings) :
                  \E k \in 1 .. Len(v.cands) :
                      /\ ~v.cands[k].has_distinct
                      /\ v.cands[k].itab = v.findings[i].message.itab
                      /\ AnchorLine(v, v.cands[k]) = v.findings[i].starting_line
                      /\ AnchorSnippet(v, v.cands[k]) = v.findings[i].snippet
            /\ Len(v.findings) + Cardinality(NearestIsDistinct(v)) <= Cardinality(Preceded(v))
            /\ \A i \in 1 .. Len(v.findings) :
                  \E k \in 1 .. Len(v.cands) :
                      /\ v.cands[k].itab = v.findings[i].message.itab
                      /\ ~SELECT_DISTINCT_RE(v.cands[k].stmt)

\* the nearest candidate is distinct, an earlier one on the target is not,
\* and nothing is reported
C3_Witness ==
    /\ Done1
    /\ \E v \in {View} :
          /\ v.findings = << >>
          /\ \E i \in NearestIsDistinct(v) :
                \E k \in Eligible(v, v.dels[i]) :
                    /\ ~v.cands[k].has_distinct
                    /\ v.cands[k].end < v.cands[Nearest(v, v.dels[i])].start

\* ------------------------------------------------------------------------
\* C4
\* ------------------------------------------------------------------------
\* the physical line holding offset off: from just after the previous
\* newline to the next newline after off, exclusive
PhysicalLine(src, off) ==
    LET before == {i \in 0 .. off - 1 : At(src, i).kind = "NL"}
        after  == {i \in off .. Len(src) - 1 : At(src, i).kind = "NL"}
    IN  Slice(src, IF before = {} THEN 0 ELSE Max(before) + 1,
                   IF after = {} THEN Len(src) ELSE Min(after))

\* C4: the snippet of every finding is the one physical line that holds the
\* start of the paired query statement, also when the statement runs over
\* several lines, so it holds no line break.
C4_SnippetIsOnePhysicalLine ==
    Done1 =>
        \A v \in {View} : \A fl \in {FlaggedDeletes(v)} :
            \A i \in 1 .. Len(fl) :
                i <= Len(v.findings) =>
                    /\ v.findings[i].snippet =
                          EscapeNewlines(PhysicalLine(v.src, v.cands[Nearest(v, fl[i])].start))
                    /\ \A j \in 1 .. Len(v.findings[i].snippet) :
                          v.findings[i].snippet[j].kind # "ESC_NL"

\* ------------------------------------------------------------------------
\* C5
\* ------------------------------------------------------------------------
\* newlines of the snippet before escaping
SnippetNewlines(f) ==
    Cardinality({j \in 1 .. Len(f.snippet) : f.snippet[j].kind = "ESC_NL"})

\* C5: starting_line is the unit's start_line (0 when absent) plus 1 plus
\* the newlines before the paired query's start; ending_line is
\* starting_line plus 1 plus the newlines inside the snippet.
C5_LineArithmetic ==
    Done1 =>
        \A v \in {View} : \A fl \in {FlaggedDeletes(v)} :
            /\ Len(v.findings) = Len(fl)
            /\ \A i \in 1 .. Len(fl) :
                  i <= Len(v.findings)
                  /\ \A c \in {v.cands[Nearest(v, fl[i])]} : \A f \in {v.findings[i]} :
                        /\ f.starting_line = v.base + 1 + NewlinesBefore(v.src, c.start)
                        /\ f.ending_line = f.starting_line + 1 + SnippetNewlines(f)
                        /\ (SnippetNewlines(f) = 0 => f.ending_line = f.starting_line + 1)

\* a finding below the first line of a unit with a start line, whose
\* snippet holds a newline, and whose deduplication statement is further down
C5_Witness ==
    /\ Done1
    /\ units[1].start_line # None
    /\ \E v \in {View} : \E fl \in {FlaggedDeletes(v)} :
          \E i \in 1 .. Len(v.findings) :
              /\ i <= Len(fl)
              /\ SnippetNewlines(v.findings[i]) >= 1
              /\ v.findings[i].starting_line >= v.base + 2
              /\ NewlinesBefore(v.src, fl[i].start) + 1 + v.base > v.findings[i].starting_line

\* ------------------------------------------------------------------------
\* C10
\* ------------------------------------------------------------------------
\* the deduplication statements on candidate k's target that follow it with
\* no other candidate on that target in between
Followers(v, k) ==
    {i \in 1 .. Len(v.dels) :
        /\ v.dels[i].itab = v.cands[k].itab
        /\ v.cands[k].end < v.dels[i].start
        /\ ~\E j \in 1 .. Len(v.cands) :
              /\ j # k
              /\ v.cands[j].itab = v.cands[k].itab
              /\ v.cands[k].end < v.cands[j].end
              /\ v.cands[j].end < v.dels[i].start}

\* the place of the finding of v.dels[i] among the findings
Rank(v, i) == Cardinality({j \in 1 .. i : Flagged(v, v.dels[j])})

\* C10: every deduplication statement that follows a candidate that is not
\* distinct, with no candidate on the target in between, has its own
\* finding, and all of them carry that candidate's starting line, ending
\* line and snippet.
C10_CandidatesNotConsumed ==
    Done1 =>
        \A v \in {View} :
            \A k \in 1 .. Len(v.cands) :
                ~v.cands[k].has_distinct =>
                    \A line \in {AnchorLine(v, v.cands[k])} :
                    \A snip \in {AnchorSnippet(v, v.cands[k])} :
                    \A i \in Followers(v, k) :
                        /\ Flagged(v, v.dels[i])
                        /\ Rank(v, i) <= Len(v.findings)
                        /\ v.findings[Rank(v, i)].starting_line = line
                        /\ v.findings[Rank(v, i)].ending_line =
                              line + 1 + Cardinality({j \in 1 .. Len(snip) :
                                                          snip[j].kind = "ESC_NL"})
                        /\ v.findings[Rank(v, i)].snippet = snip

\* one candidate with two followers, two findings
C10_Witness ==
    /\ Done1
    /\ \E v \in {View} :
          /\ Len(v.findings) >= 2
          /\ \E k \in 1 .. Len(v.cands) :
                /\ ~v.cands[k].has_distinct
                /\ Cardinality(Followers(v, k)) >= 2
                /\ \A i \in Followers(v, k) : Rank(v, i) <= Len(v.findings)

\* ------------------------------------------------------------------------
\* C6
\* ------------------------------------------------------------------------
DoneArray == endpoint = "remediate-array" /\ pc = "done"

\* the scanned result of every input unit, in input order
Scanned == [i \in 1 .. Len(units) |-> scan_unit(units[i]).ret]

AtLeastOneFinding(u) == Len(u.findings[1]) >= 1

\* C6: the answer of the batch scan is the sequence of the scanned results
\* of the input units with at least one finding, each once, in input order.
C6_BatchKeepsUnitsWithFindings ==
    DoneArray => response = SelectSeq(Scanned, AtLeastOneFinding)

\* a unit without findings stands between two units with findings
C6_Witness ==
    /\ DoneArray
    /\ Len(units) >= 3
    /\ Len(response) >= 2
    /\ \E i, j, k \in 1 .. Len(units) :
          /\ i < j /\ j < k
          /\ AtLeastOneFinding(Scanned[i])
          /\ ~AtLeastOneFinding(Scanned[j])
          /\ AtLeastOneFinding(Scanned[k])
          /\ units[i].pgm_name # units[k].pgm_name

\* ------------------------------------------------------------------------
\* C7
\* ------------------------------------------------------------------------
Header(u) ==
    [pgm_name |-> u.pgm_name, inc_name |-> u.inc_name, type |-> u.type,
     name |-> u.name, start_line |-> u.start_line, end_line |-> u.end_line,
     code |-> u.code]

\* C7: every received /remediate request has an answer; the answer is the
\* unit with its header fields unchanged and a findings list attached, and
\* the list is empty (not absent) when no deduplication statement has an
\* eligible, non-distinct nearest candidate, absent code included.
C7_SingleAlwaysReturnsUnit ==
    /\ (endpoint = "remediate" /\ pc = "recv") =>
          \A r \in {scan_unit(units[1]).ret} :
              /\ r.findings # None
              /\ Header(r) = Header(units[1])
    /\ Done1 =>
          /\ Len(response) = 1
          /\ Header(response[1]) = Header(units[1])
          /\ response[1].findings # None
          /\ (\A v \in {View} : FlaggedDeletes(v) = << >> =>
                                       response[1].findings = Some(<< >>))
          /\ (units[1].code = None => response[1].findings = Some(<< >>))

\* a query with no fill clause and a deduplication statement: empty list
C7_Witness ==
    /\ Done1
    /\ response[1].findings = Some(<< >>)
    /\ \E v \in {View} : v.cands = << >> /\ Len(v.dels) >= 1
    /\ STMT_SELECT_RE(TheSrc, 0).found

\* ------------------------------------------------------------------------
\* C9
\* ------------------------------------------------------------------------
\* C9: the scan leaves the posted unit as it was; its findings are those of
\* the same unit posted without findings; and posting the returned unit
\* again returns the same findings.
C9_Idempotent ==
    Done1 =>
        /\ response[1].findings =
              scan_unit([units[1] EXCEPT !.findings = None]).ret.findings
        /\ (round = 0 => units[1].findings \in {None, Some(<< StaleFinding >>)})
        /\ (round >= 1 => /\ units = prev
                          /\ response[1].findings = prev[1].findings)

\* the returned unit, carrying findings, has been posted and answered again
C9_Witness ==
    /\ Done1
    /\ round >= 1
    /\ Len(prev[1].findings[1]) >= 1
    /\ Len(TheFindings) >= 1


\* ------------------------------------------------------------------------
\* C8: spellings of a target
\* ------------------------------------------------------------------------
lT == << "l", "T" >>

SpellNames == {lt, LT, lT, mm}

\* every spelling of a target token: four shapes, with or without "@"
TargetSpellings ==
    {pre \o << x >> :
        pre \in {<< >>, << AT >>},
        x \in {Word(n) : n \in SpellNames} \cup {Data(n) : n \in SpellNames}
              \cup {Fs(n) : n \in SpellNames} \cup {Dyn(n) : n \in SpellNames}}

\* SELECT INTO TABLE <t1>.<newline>DELETE ADJACENT DUPLICATES FROM <t2>.<newline>
SpellText(t1, t2) ==
    << Kw("SELECT"), SP, Kw("INTO"), SP, Kw("TABLE"), SP >> \o t1
        \o << DOT, NL, Kw("DELDUP"), SP >> \o t2 \o << DOT, NL >>

\* the identifier a name spells, letter case put aside
UpperChar(c) ==
    CASE c = "l" -> "L"
      [] c = "t" -> "T"
      [] c = "m" -> "M"
      [] OTHER -> c

Identifier(n) == [i \in 1 .. Len(n) |-> UpperChar(n[i])]

IdentKinds == {"WORD", "DATA", "FS", "DYN"}

InitSpell ==
    /\ endpoint = "remediate"
    /\ units \in {<< MkUnit("ZPROG", Some(100), Some(SpellText(t1, t2)), None) >> :
                     t1 \in TargetSpellings, t2 \in TargetSpellings}
    /\ pc = "recv"
    /\ idx = 1
    /\ results = << >>
    /\ response = << >>
    /\ round = 0
    /\ prev = << >>

\* the client posts the unit again with one target token spelled otherwise
Respell ==
    /\ endpoint = "remediate"
    /\ pc = "done"
    /\ round < MaxRounds
    /\ \E p \in 0 .. Len(CodeOf(units[1])) - 1 :
          /\ At(CodeOf(units[1]), p).kind \in IdentKinds
          /\ \E t \in TargetSpellings :
                /\ Identifier(t[Len(t)].name) = Identifier(At(CodeOf(units[1]), p).name)
                /\ LET src == CodeOf(units[1])
                       a == IF p > 0 /\ At(src, p - 1).kind = "AT" THEN p - 1 ELSE p
                       code2 == Slice(src, 0, a) \o t \o Slice(src, p + 1, Len(src))
                   IN  units' = << [units[1] EXCEPT !.code = Some(code2)] >>
    /\ prev' = response
    /\ response' = << >>
    /\ pc' = "recv"
    /\ round' = round + 1
    /\ UNCHANGED << endpoint, idx, results >>

NextSpell ==
    \/ scan_rule_single
    \/ Respell

SpecSpell == InitSpell /\ [][NextSpell]_vars

IsIdent(x) == x.kind \in IdentKinds

\* the target tokens of the answered unit: the query's, then the statement's
TargetLexemes == SelectSeq(TheSrc, IsIdent)

Locations(fs) == {<< fs[i].starting_line, fs[i].ending_line >> : i \in 1 .. Len(fs)}

\* C8: a query and a deduplication statement pair exactly when their target
\* tokens spell the same identifier, whatever the letter case, the shape and
\* the "@" prefix on either side; spelling a target token otherwise leaves
\* the locations of the findings as they were.
C8_SpellingInvariant ==
    Done1 =>
        /\ Len(TargetLexemes) = 2
        /\ (Identifier(TargetLexemes[1].name) = Identifier(TargetLexemes[2].name))
              <=> (Len(TheFindings) = 1)
        /\ (Identifier(TargetLexemes[1].name) # Identifier(TargetLexemes[2].name))
              <=> (TheFindings = << >>)
        /\ (round >= 1 => Locations(TheFindings) = Locations(prev[1].findings[1]))

\* a respelled unit whose two target tokens differ in shape and letter case
\* still has its finding
C8_Witness ==
    /\ Done1
    /\ round >= 1
    /\ Len(TheFindings) = 1
    /\ Len(prev[1].findings[1]) = 1
    /\ prev[1].code # units[1].code
    /\ TargetLexemes[1].kind # TargetLexemes[2].kind
    /\ TargetLexemes[1].name # TargetLexemes[2].name

=============================================================================
